---- MODULE Spec2Model ----
(***************************************************************************)
(* Query routing and response composition of RAG-LangGraph:                *)
(* DelegatingAgent (src/src/agents/delegating-agent.js), RAGAgent and      *)
(* ChartTool (src/src/tools/chart-tool.js), WeaviateSetup.searchDocuments  *)
(* (src/src/database/weaviate-setup.js) and LLMConfig.invoke               *)
(* (src/src/llm/llm-config.js).                                            *)
(*                                                                         *)
(* Text is a TLA+ string; String.prototype.includes and toLowerCase are    *)
(* computed character by character.  A JavaScript value that may be        *)
(* something other than a string is a record tagged with jsType.           *)
(***************************************************************************)
EXTENDS Integers, Sequences, FiniteSets, TLC

VARIABLES
    client,     \* WeaviateSetup.client: "null", "mock" or "real"
    store,      \* the QADocument objects held by the vector store, in its order
    pc,         \* per request: position inside DelegatingAgent.processQuery
    userQuery,  \* per request: first argument of processQuery
    tenant,     \* per request: second argument of processQuery
    analysis,   \* per request: the value analyzeQuery resolved to
    response,   \* per request: the response object under construction / returned
    promises,   \* per request: the capability tasks pushed at lines 32 and 39
    results,    \* per request: what Promise.all resolved to (line 52)
    settled,    \* per request: "pending", "resolved" or "rejected" promise of processQuery
    fault,      \* per request: TRUE once a step inside the try block has thrown
    llmCalls,   \* per request: the position of processQuery at each LLMConfig.invoke
    events,     \* history, per request: the external calls made and the tasks settled, in order
    toolInput,  \* the argument of a call of ChartTool.invoke made from outside the agent
    toolOutcome, \* what the promise of that call has settled to
    delegatingAgent, \* index.js line 17: "undefined" until initializeSystem assigns it
    httpRequest, \* the HTTP request being handled by the server, if any
    httpReply,  \* the status and body the server has answered it with, if any
    healthReply \* the body of the last answer to GET /health, if any

vars == <<client, store, pc, userQuery, tenant, analysis, response, promises,
          results, settled, fault, llmCalls, events, toolInput, toolOutcome,
          delegatingAgent, httpRequest, httpReply, healthReply>>

agentVars == <<client, store, pc, userQuery, tenant, analysis, response, promises,
               results, settled, fault, llmCalls, events>>

toolVars == <<toolInput, toolOutcome>>

serverVars == <<delegatingAgent, httpRequest, httpReply, healthReply>>

-----------------------------------------------------------------------------
(* JavaScript values *)

Undefined == [jsType |-> "undefined"]
Null == [jsType |-> "null"]
JsString(t) == [jsType |-> "string", text |-> t]
JsNumber(n) == [jsType |-> "number", num |-> n]
JsArray(items) == [jsType |-> "array", items |-> items]

-----------------------------------------------------------------------------
(* Strings *)

UpperCaseLetters == "ABCDEFGHIJKLMNOPQRSTUVWXYZ"
LowerCaseLetters == "abcdefghijklmnopqrstuvwxyz"

CharAt(s, i) == SubSeq(s, i, i)

LowerCaseOf ==
    [c \in {CharAt(UpperCaseLetters, i) : i \in 1..Len(UpperCaseLetters)} |->
        CharAt(LowerCaseLetters,
               CHOOSE i \in 1..Len(UpperCaseLetters) : CharAt(UpperCaseLetters, i) = c)]

LowerChar(c) == IF c \in DOMAIN LowerCaseOf THEN LowerCaseOf[c] ELSE c

\* the characters of s from the i-th on, lower-cased
RECURSIVE toLowerCaseFrom(_, _)
toLowerCaseFrom(s, i) ==
    IF i > Len(s) THEN "" ELSE LowerChar(CharAt(s, i)) \o toLowerCaseFrom(s, i + 1)

\* String.prototype.toLowerCase (s is bound to its value once)
toLowerCase(s) == CHOOSE lowered \in { toLowerCaseFrom(t, 1) : t \in {s} } : TRUE

\* String.prototype.includes
includes(s, k) ==
    \E i \in 1..(Len(s) - Len(k) + 1) : SubSeq(s, i, i + Len(k) - 1) = k

\* Array.prototype.join
RECURSIVE join(_, _)
join(arr, sep) ==
    IF Len(arr) = 0 THEN ""
    ELSE IF Len(arr) = 1 THEN arr[1]
    ELSE arr[1] \o sep \o join(Tail(arr), sep)

-----------------------------------------------------------------------------
(* DelegatingAgent: pure parts *)

\* line 88: userQuery.toLowerCase() throws a TypeError unless userQuery is a string
analyzeQueryThrows(q) == q.jsType # "string"

\* the text as typed
lowerCasedAsIs(q) == q.text

\* line 88
lowerCased(q) == toLowerCase(q.text)

\* lines 90-92
useRAGOf(query) ==
    includes(query, "what") \/ includes(query, "how") \/ includes(query, "why")
    \/ includes(query, "search") \/ includes(query, "find")
    \/ includes(query, "machine learning") \/ includes(query, "neural network")
    \/ includes(query, "deep learning") \/ includes(query, "ai")

\* lines 94-96
useChartOf(query) ==
    includes(query, "chart") \/ includes(query, "graph")
    \/ includes(query, "visualize") \/ includes(query, "plot")
    \/ includes(query, "bar") \/ includes(query, "pie")
    \/ includes(query, "line") \/ includes(query, "doughnut")

\* the order of tests of determineChartType (lines 111-118) instead
chartTypeOfBarFirst(query) ==
    IF includes(query, "bar") THEN "bar"
    ELSE IF includes(query, "line") THEN "line"
    ELSE IF includes(query, "pie") THEN "pie"
    ELSE IF includes(query, "doughnut") THEN "doughnut"
    ELSE "bar"

\* lines 98-101
chartTypeOf(query) ==
    IF includes(query, "pie") THEN "pie"
    ELSE IF includes(query, "line") THEN "line"
    ELSE IF includes(query, "doughnut") THEN "doughnut"
    ELSE "bar"

\* lines 86-103; query is bound to the lower-cased text once
analyzeQuery(q) ==
    CHOOSE a \in { [useRAG |-> useRAGOf(query), useChart |-> useChartOf(query),
                    chartType |-> chartTypeOf(query),
                    reasoning |-> "Analysis based on query content: " \o q.text] :
                   query \in {lowerCased(q)} } : TRUE

\* the fixed replies of provideDirectAnswer (the emoji that ends the third is left out)
GreetingReply == "Hello! I am doing well, thank you for asking. How can I help you today?"
WeatherReply == "I cannot provide real-time weather information, but I can help you with other questions!"
JokeReply == "Why did the AI go to therapy? Because it had too many neural issues!"
GenericReply == "I understand your query. Let me provide you with a helpful response based on my knowledge."

provideDirectAnswerSilent(q) == ""

provideDirectAnswer(q) ==
    LET query == toLowerCase(q.text)
    IN IF includes(query, "hello") \/ includes(query, "how are you") THEN GreetingReply
       ELSE IF includes(query, "weather") THEN WeatherReply
       ELSE IF includes(query, "joke") THEN JokeReply
       ELSE GenericReply

\* the tool names joined as index.js line 69 joins them
generateCombinedResponseCommas(q, resp) ==
    "I've analyzed your query: \"" \o q.text \o "\" and used "
        \o join(resp.toolsUsed, ", ") \o " to gather information. " \o resp.answer

\* lines 145-147
generateCombinedResponse(q, resp) ==
    "I've analyzed your query: \"" \o q.text \o "\" and used "
        \o join(resp.toolsUsed, " and ") \o " to gather information. " \o resp.answer

-----------------------------------------------------------------------------
(* ChartTool *)

IsNullish(v) == "jsType" \in DOMAIN v /\ v.jsType \in {"undefined", "null"}

Palette == <<"#FF6384", "#36A2EB", "#FFCE56", "#4BC0C0", "#9966FF">>

getColors(chartType) ==
    CASE chartType = "bar" -> Palette
      [] chartType = "line" -> <<"#36A2EB">>
      [] chartType = "pie" -> Palette
      [] chartType = "doughnut" -> Palette
      [] OTHER -> Palette

generateSampleData(chartType) ==
    CASE chartType = "line" ->
            [labels |-> <<"Jan", "Feb", "Mar", "Apr", "May">>,
             values |-> <<12, 19, 3, 5, 2>>, label |-> "Trend Data"]
      [] chartType = "pie" ->
            [labels |-> <<"Red", "Blue", "Yellow", "Green", "Purple">>,
             values |-> <<12, 19, 3, 5, 2>>, label |-> "Distribution"]
      [] chartType = "doughnut" ->
            [labels |-> <<"Red", "Blue", "Yellow", "Green">>,
             values |-> <<12, 19, 3, 5>>, label |-> "Categories"]
      [] OTHER ->
            [labels |-> <<"January", "February", "March", "April", "May">>,
             values |-> <<65, 59, 80, 81, 56>>, label |-> "Sales Data"]

\* data.labels throws a TypeError when data is undefined or null
generateChartConfigThrows(chartType, data, title) == IsNullish(data)

\* a property whose value is undefined (borderColor, scales) is a missing field
generateChartConfigTypeless(chartType, data, title) ==
    [type |-> "bar",
     data |-> [labels |-> data.labels,
               datasets |-> << [label |-> data.label, data |-> data.values,
                                backgroundColor |-> getColors(chartType),
                                borderWidth |-> 1] >>],
     options |-> [responsive |-> TRUE,
                  plugins |-> [title |-> [display |-> TRUE, text |-> title],
                               legend |-> [display |-> TRUE, position |-> "top"]]]]

\* a configuration with one colour for each value of the data
generateChartConfigColourPerValue(chartType, data, title) ==
    LET values == IF "values" \in DOMAIN data THEN data.values ELSE <<10, 20, 30>>
    IN [type |-> chartType,
        data |-> [labels |-> IF "labels" \in DOMAIN data THEN data.labels
                             ELSE <<"Label 1", "Label 2", "Label 3">>,
                  datasets |-> << [label |-> "Dataset", data |-> values,
                                   backgroundColor |->
                                       SubSeq(Palette, 1, IF Len(values) < Len(Palette)
                                                          THEN Len(values) ELSE Len(Palette)),
                                   borderWidth |-> 1] >>],
        options |-> [responsive |-> TRUE,
                     plugins |-> [title |-> [display |-> TRUE, text |-> title],
                                  legend |-> [display |-> TRUE, position |-> "top"]]]]

generateChartConfig(chartType, data, title) ==
    LET labels == IF "labels" \in DOMAIN data THEN data.labels
                  ELSE <<"Label 1", "Label 2", "Label 3">>
        label == IF "label" \in DOMAIN data /\ data.label # "" THEN data.label
                 ELSE "Dataset"
        values == IF "values" \in DOMAIN data THEN data.values ELSE <<10, 20, 30>>
        dataset == [label |-> label, data |-> values,
                    backgroundColor |-> getColors(chartType), borderWidth |-> 1]
                   @@ (IF chartType = "line" THEN [borderColor |-> "#36A2EB"] ELSE <<>>)
        options == [responsive |-> TRUE,
                    plugins |-> [title |-> [display |-> TRUE, text |-> title],
                                 legend |-> [display |-> TRUE, position |-> "top"]]]
                   @@ (IF chartType # "pie" /\ chartType # "doughnut"
                       THEN [scales |-> [y |-> [beginAtZero |-> TRUE]]] ELSE <<>>)
    IN [type |-> chartType,
        data |-> [labels |-> labels, datasets |-> <<dataset>>],
        options |-> options]

IsString(v) == "jsType" \in DOMAIN v /\ v.jsType = "string"

\* texts that are JSON, with the value JSON.parse gives for each
WellFormedJson ==
    { [text |-> "null", value |-> Null],
      [text |-> "42", value |-> JsNumber(42)],
      [text |-> "{\"chartType\":\"pie\"}", value |-> [chartType |-> "pie"]],
      [text |-> "{\"chartType\":\"line\",\"data\":null}",
       value |-> [chartType |-> "line", data |-> Null]],
      [text |-> "{\"data\":{\"values\":[3]},\"title\":\"T\"}",
       value |-> [data |-> [values |-> <<3>>], title |-> "T"]],
      [text |-> "{\"chartType\":\"bar\",\"data\":{\"labels\":[\"A\",\"B\"],\"values\":[1,2]}}",
       value |-> [chartType |-> "bar",
                  data |-> [labels |-> <<"A", "B">>, values |-> <<1, 2>>]]] }

\* texts that are not JSON: the empty text, unquoted keys, plain words, and an
\* object text cut short anywhere before its end
MalformedJson ==
    {"", "{chartType: bar}", "not json"}
    \cup UNION { { SubSeq(j.text, 1, n) : n \in 1..(Len(j.text) - 1) } :
                   j \in { w \in WellFormedJson : CharAt(w.text, 1) = "{" } }

\* JSON.parse: the value of a well-formed text, a SyntaxError otherwise
JSONparse(text) ==
    IF \E j \in WellFormedJson : j.text = text
    THEN [throws |-> FALSE, value |-> (CHOOSE j \in WellFormedJson : j.text = text).value]
    ELSE [throws |-> TRUE, value |-> Undefined]

\* the try block of ChartTool._call (lines 32-41).  A property that is absent
\* reads as undefined: title then defaults to 'Chart', chartType is the key
\* and the text "undefined" and leaves no type in the configuration, and data
\* makes data.labels throw (as does null)
ChartTool_tryBlock(input) ==
    LET parsed == IF IsString(input) THEN JSONparse(input.text)
                  ELSE [throws |-> FALSE, value |-> input]
        obj == parsed.value
        chartType == IF "chartType" \in DOMAIN obj THEN obj.chartType ELSE "undefined"
        data == IF "data" \in DOMAIN obj THEN obj.data ELSE Undefined
        title == IF "title" \in DOMAIN obj THEN obj.title ELSE "Chart"
        config == generateChartConfig(chartType, data, title)
    IN IF parsed.throws THEN [throws |-> TRUE, error |-> "SyntaxError"]
       ELSE IF IsNullish(obj) \/ generateChartConfigThrows(chartType, data, title)
       THEN [throws |-> TRUE, error |-> "TypeError"]
       ELSE [throws |-> FALSE,
             value |-> [success |-> TRUE,
                        chartConfig |-> IF "chartType" \in DOMAIN obj THEN config
                                        ELSE [k \in DOMAIN config \ {"type"} |-> config[k]],
                        message |-> "Generated " \o chartType
                                    \o " chart configuration successfully"]]

\* ChartTool._call: the try block and its catch (lines 42-48)
ChartTool_call(input) ==
    LET try == ChartTool_tryBlock(input)
    IN IF try.throws
       THEN [success |-> FALSE, error |-> try.error,
             message |-> "Failed to generate chart configuration"]
       ELSE try.value

\* a call whose try block has no catch
ChartTool_invokeUncaught(input) ==
    LET try == ChartTool_tryBlock(input)
    IN IF try.throws THEN [settled |-> "rejected", value |-> Undefined]
       ELSE [settled |-> "resolved", value |-> try.value]

\* ChartTool.invoke (lines 51-53): the promise of _call
ChartTool_invoke(input) == [settled |-> "resolved", value |-> ChartTool_call(input)]

prepareChartInput(q, chartType) ==
    [chartType |-> chartType, data |-> generateSampleData(chartType),
     title |-> "Chart for: " \o q.text]

-----------------------------------------------------------------------------
(* WeaviateSetup *)

Tenants == {"tenant1", "tenant2"}

\* the most objects the store is taken to hold
MaxDocs == 6

\* limit argument RAGAgent.processQuery passes to searchDocuments
SearchLimit == 5

Digits == "0123456789"

FileIdOf(i) == "doc00" \o CharAt(Digits, i + 1)

\* the tenants of the five objects of insertSampleData, then alternating
TenantOf(i) == IF i \in {3, 4} \/ (i > 5 /\ i % 2 = 0) THEN "tenant2" ELSE "tenant1"

StoreDocument(i) ==
    [fileId |-> FileIdOf(i), question |-> "Question of " \o FileIdOf(i),
     answer |-> "Answer of " \o FileIdOf(i), tenant |-> TenantOf(i)]

StoreOf(n) == [i \in 1..n |-> StoreDocument(i)]

\* an empty store, one object, and more objects than a search asks for
StoreSizes == {0, 1, MaxDocs}

\* the two objects searchDocuments returns without a usable client or on an error
MockData(tnt) ==
    << [fileId |-> "doc001", question |-> "What is machine learning?",
        answer |-> "Machine learning is a subset of artificial intelligence.",
        tenant |-> tnt],
       [fileId |-> "doc002", question |-> "How does a neural network work?",
        answer |-> "A neural network is a series of algorithms.",
        tenant |-> tnt] >>

Min(a, b) == IF a < b THEN a ELSE b

\* cl = "null": line 249; cl = "mock": the object of createMockClient has no
\* withFields after withClassName, so line 271 throws and line 279 answers;
\* fails: the GraphQL request of a real client throws
searchDocuments(cl, st, tnt, limit, fails) ==
    IF cl = "null" THEN MockData(tnt)
    ELSE IF cl = "mock" \/ fails THEN MockData(tnt)
    ELSE SubSeq(st, 1, Min(limit, Len(st)))

\* the documents fetchObjectsByFileIds makes up, one for each requested id
\* (lines 301-306 and 320-325)
SampleObjects(fileIds, tnt) ==
    [i \in 1..Len(fileIds) |->
        [fileId |-> fileIds[i], question |-> "Sample question for " \o fileIds[i],
         answer |-> "Sample answer for " \o fileIds[i], tenant |-> tnt]]

\* fetchObjectsByFileIds (lines 296-327).  cl = "null": line 299; cl = "mock":
\* withFields is missing as in searchDocuments, so line 312 throws and line 320
\* answers; a real client is asked for the first fileIds.length objects of the
\* class: the request carries neither the ids nor the tenant
fetchObjectsByFileIds(cl, st, fileIds, tnt, fails) ==
    IF cl = "null" THEN SampleObjects(fileIds, tnt)
    ELSE IF cl = "mock" \/ fails THEN SampleObjects(fileIds, tnt)
    ELSE SubSeq(st, 1, Min(Len(fileIds), Len(st)))

-----------------------------------------------------------------------------
(* LLMConfig *)

LlmFallbackContent == "I encountered an error while processing your request. Please try again."

\* createMockLLM().invoke on the last message, whose content is the user's question
\* (lines 136-149; the branches of lines 79-134 need a marker text in it)
MockLLMContent(content) ==
    IF includes(content, "query analyzer") \/ includes(content, "User query:")
    THEN "{\"useRAG\":false,\"useChart\":false,\"chartType\":\"bar\"}"
    ELSE IF includes(content, "Context:")
    THEN "Based on the provided context, I can help answer your question."
    ELSE IF includes(content, "direct and informative answer")
    THEN GenericReply
    ELSE IF includes(content, "chart") \/ includes(content, "graph")
    THEN "I can help you create a chart. Let me generate a Chart.js configuration for you."
    ELSE IF includes(content, "search") \/ includes(content, "find") \/ includes(content, "what")
    THEN "I can help you search for information. Let me query the knowledge base for relevant documents."
    ELSE "I understand your query. Let me provide you with a direct answer based on my knowledge."

\* what the configured model does with one call: it answers, or it throws an error
\* that has a message (naming the quota or not) or has none
LlmBehaviours ==
    { [kind |-> "content", content |-> "Generated answer."],
      [kind |-> "error", hasMessage |-> TRUE, quota |-> TRUE],
      [kind |-> "error", hasMessage |-> TRUE, quota |-> FALSE],
      [kind |-> "error", hasMessage |-> FALSE, quota |-> FALSE] }

\* LLMConfig.invoke: error.message.includes throws when the error has no message
LLMConfig_invoke(behaviour, question) ==
    IF behaviour.kind = "content" THEN [throws |-> FALSE, content |-> behaviour.content]
    ELSE IF ~behaviour.hasMessage THEN [throws |-> TRUE, content |-> ""]
    ELSE IF behaviour.quota THEN [throws |-> FALSE, content |-> MockLLMContent(question)]
    ELSE [throws |-> FALSE, content |-> LlmFallbackContent]

-----------------------------------------------------------------------------
(* RAGAgent.processQuery *)

NoInformationAnswer == "I couldn't find any relevant information in the knowledge base for your query."
RagApology == "I encountered an error while processing your query. Please try again."

\* an empty search treated as a fault
ragNoDocumentsApology == [answer |-> RagApology, fileIds |-> <<>>, references |-> <<>>]

\* lines 148-154
ragNoDocuments == [answer |-> NoInformationAnswer, fileIds |-> <<>>, references |-> <<>>]

\* an answer that cites every document only when the model itself answered
ragAnswerCitingByContent(content, relevantDocs) ==
    LET cited == IF content = "Generated answer." THEN relevantDocs
                 ELSE SubSeq(relevantDocs, 1, 1)
    IN [answer |-> content,
        fileIds |-> [i \in 1..Len(cited) |-> cited[i].fileId],
        references |-> [i \in 1..Len(cited) |->
                           [fileId |-> cited[i].fileId, question |-> cited[i].question,
                            answer |-> cited[i].answer, tenant |-> cited[i].tenant]]]

\* a result whose ids run from the last document to the first
ragAnswerIdsReversed(content, relevantDocs) ==
    [answer |-> content,
     fileIds |-> [i \in 1..Len(relevantDocs) |->
                     relevantDocs[Len(relevantDocs) + 1 - i].fileId],
     references |-> [i \in 1..Len(relevantDocs) |->
                        [fileId |-> relevantDocs[i].fileId,
                         question |-> relevantDocs[i].question,
                         answer |-> relevantDocs[i].answer,
                         tenant |-> relevantDocs[i].tenant]]]

\* lines 157 and 182-193
ragAnswer(content, relevantDocs) ==
    [answer |-> content,
     fileIds |-> [i \in 1..Len(relevantDocs) |-> relevantDocs[i].fileId],
     references |-> [i \in 1..Len(relevantDocs) |->
                        [fileId |-> relevantDocs[i].fileId,
                         question |-> relevantDocs[i].question,
                         answer |-> relevantDocs[i].answer,
                         tenant |-> relevantDocs[i].tenant]]]

\* lines 195-202
ragCatch == [answer |-> RagApology, fileIds |-> <<>>, references |-> <<>>]

-----------------------------------------------------------------------------
(* DelegatingAgent.processQuery *)

Requests == {"r1", "r2"}

ErrorApology == "I encountered an error while processing your request. Please try again."

\* a response that starts with a chart configuration
NewResponseWithChart ==
    [answer |-> "", references |-> <<>>, fileIds |-> <<>>,
     chartConfig |-> generateChartConfig("bar", generateSampleData("bar"), "Chart"),
     toolsUsed |-> <<>>]

\* lines 19-25
NewResponse ==
    [answer |-> "", references |-> <<>>, fileIds |-> <<>>, chartConfig |-> Null,
     toolsUsed |-> <<>>]

\* a catch block that throws the error on
catchHandlerRethrow == [settled |-> "rejected", response |-> Undefined]

\* lines 74-83: what processQuery settles to once the try block has thrown
catchHandler ==
    [settled |-> "resolved",
     response |-> [answer |-> ErrorApology, references |-> <<>>, fileIds |-> <<>>,
                   chartConfig |-> Null, toolsUsed |-> <<"Error">>]]

\* line 47 run without its condition
toolsToUseWithDirect(a) ==
    (IF a.useRAG THEN <<"RAG">> ELSE <<>>) \o (IF a.useChart THEN <<"Chart">> ELSE <<>>)
        \o <<"Direct">>

\* lines 31-34 and 37-41: the tasks pushed and the names appended, in that order
toolsToUse(a) ==
    (IF a.useRAG THEN <<"RAG">> ELSE <<>>) \o (IF a.useChart THEN <<"Chart">> ELSE <<>>)

\* a Retrieval task whose search never comes back
ragTaskHung == [tool |-> "RAG", state |-> "hung", relevantDocs |-> <<>>,
                input |-> Undefined, result |-> Undefined,
                searchFailed |-> FALSE, llm |-> Undefined]

\* searchFailed and llm record what the two external calls of the task did
ragTask == [tool |-> "RAG", state |-> "search", relevantDocs |-> <<>>,
            input |-> Undefined, result |-> Undefined,
            searchFailed |-> FALSE, llm |-> Undefined]

chartTask(q, a) == [tool |-> "Chart", state |-> "run", relevantDocs |-> <<>>,
                    input |-> prepareChartInput(q, a.chartType), result |-> Undefined]

launch(q, a) ==
    (IF a.useRAG THEN <<ragTask>> ELSE <<>>) \o (IF a.useChart THEN <<chartTask(q, a)>> ELSE <<>>)

\* an iteration that takes only the answer of the Retrieval result
mergeResultAnswerOnly(resp, result, index) ==
    IF resp.toolsUsed[index] = "RAG"
    THEN [resp EXCEPT !.answer = result.answer]
    ELSE IF resp.toolsUsed[index] = "Chart"
    THEN IF "success" \in DOMAIN result /\ result.success
         THEN [resp EXCEPT !.chartConfig = result.chartConfig] ELSE resp
    ELSE resp

\* an iteration that takes a failed Visualization result for a fault
mergeResultFailing(resp, result, index) ==
    IF resp.toolsUsed[index] = "RAG"
    THEN [resp EXCEPT !.answer = result.answer, !.fileIds = result.fileIds,
                      !.references = result.references]
    ELSE IF resp.toolsUsed[index] = "Chart"
    THEN IF "success" \in DOMAIN result /\ result.success
         THEN [resp EXCEPT !.chartConfig = result.chartConfig]
         ELSE catchHandler.response
    ELSE resp

\* lines 55-63: one iteration of results.forEach
mergeResult(resp, result, index) ==
    IF resp.toolsUsed[index] = "RAG"
    THEN [resp EXCEPT !.answer = result.answer, !.fileIds = result.fileIds,
                      !.references = result.references]
    ELSE IF resp.toolsUsed[index] = "Chart"
    THEN IF "success" \in DOMAIN result /\ result.success
         THEN [resp EXCEPT !.chartConfig = result.chartConfig] ELSE resp
    ELSE resp

\* lines 54-64
RECURSIVE forEachResult(_, _, _)
forEachResult(resp, res, index) ==
    IF index > Len(res) THEN resp
    ELSE forEachResult(mergeResult(resp, res[index], index), res, index + 1)

-----------------------------------------------------------------------------
(* Inputs *)

\* queries of the test suites (tests/comprehensive-tests.js, test-client.js), the
\* empty string, and a JSON number, which the check of index.js line 59 lets through
ScenarioQueries ==
    { JsString(""),
      JsString("Hello, how are you?"),
      JsString("Tell me a joke"),
      JsString("Create a bar chart of sales data"),
      JsString("Generate a line chart of trends"),
      JsString("What is machine learning?"),
      JsString("Explain machine learning and create a pie chart of ML algorithms"),
      JsNumber(42) }

\* the most fragments a generated query text is made of
MaxWords == 3

\* every keyword of analyzeQuery and provideDirectAnswer (the two-word ones as
\* neighbours), words that hold one inside ("Show", "Explain"), upper case, and a
\* word that holds none
Vocabulary ==
    << "Show", "what", "how", "why", "search", "find", "deep", "machine", "learning",
       "neural", "network", "ai", "Explain", "hello", "joke", "weather", "PIE", "chart",
       "graph", "visualize", "plot", "bar", "pie", "line", "doughnut", "data" >>

\* the texts made of at most n fragments taken in order from Vocabulary[i], ...
RECURSIVE PhrasesFrom(_, _)
PhrasesFrom(i, n) ==
    IF n = 0 \/ i > Len(Vocabulary) THEN {""}
    ELSE PhrasesFrom(i + 1, n)
         \cup { IF p = "" THEN Vocabulary[i] ELSE Vocabulary[i] \o " " \o p :
                    p \in PhrasesFrom(i + 1, n - 1) }

GeneratedQueries == { JsString(t) : t \in PhrasesFrom(1, MaxWords) }

-----------------------------------------------------------------------------
(* State machine *)

Init ==
    /\ \E n \in StoreSizes :
          \/ client = "real" /\ store = StoreOf(n)
          \/ client \in {"null", "mock"} /\ n = 0 /\ store = StoreOf(n)
    /\ pc = [r \in Requests |-> "Idle"]
    /\ userQuery = [r \in Requests |-> Undefined]
    /\ tenant = [r \in Requests |-> "tenant1"]
    /\ analysis = [r \in Requests |-> Undefined]
    /\ response = [r \in Requests |-> Undefined]
    /\ promises = [r \in Requests |-> <<>>]
    /\ results = [r \in Requests |-> <<>>]
    /\ settled = [r \in Requests |-> "none"]
    /\ fault = [r \in Requests |-> FALSE]
    /\ llmCalls = [r \in Requests |-> <<>>]
    /\ events = [r \in Requests |-> <<>>]
    /\ toolInput = Undefined
    /\ toolOutcome = [settled |-> "none", value |-> Undefined]
    /\ delegatingAgent = "undefined"
    /\ httpRequest = Undefined
    /\ httpReply = Undefined
    /\ healthReply = Undefined

Idle(r) == pc[r] = "Idle"

\* a call that keeps the tenant in a field of the agent, shared by all calls
CallSharedTenant(r, q, t) ==
    /\ Idle(r)
    /\ pc' = [pc EXCEPT ![r] = "Routing"]
    /\ userQuery' = [userQuery EXCEPT ![r] = q]
    /\ tenant' = [x \in Requests |-> t]
    /\ settled' = [settled EXCEPT ![r] = "pending"]
    /\ UNCHANGED <<serverVars, toolVars, client, store, analysis, response, promises, results, fault, llmCalls>>

\* a caller invokes processQuery(q, t)
Call(r, q, t) ==
    /\ Idle(r)
    /\ pc' = [pc EXCEPT ![r] = "Routing"]
    /\ userQuery' = [userQuery EXCEPT ![r] = q]
    /\ tenant' = [tenant EXCEPT ![r] = t]
    /\ settled' = [settled EXCEPT ![r] = "pending"]
    /\ UNCHANGED <<serverVars, toolVars, client, store, analysis, response, promises, results, fault, llmCalls>>

\* lines 15-48: analysis, dispatch of the selected tasks, and the direct answer
Route(r) ==
    /\ pc[r] = "Routing"
    /\ IF analyzeQueryThrows(userQuery[r])
       THEN /\ fault' = [fault EXCEPT ![r] = TRUE]
            /\ response' = [response EXCEPT ![r] = catchHandler.response]
            /\ settled' = [settled EXCEPT ![r] = catchHandler.settled]
            /\ pc' = [pc EXCEPT ![r] = "Done"]
            /\ UNCHANGED <<analysis, promises>>
       ELSE \E a \in {analyzeQuery(userQuery[r])} :
               /\ analysis' = [analysis EXCEPT ![r] = a]
               /\ promises' = [promises EXCEPT ![r] = launch(userQuery[r], a)]
               /\ IF ~a.useRAG /\ ~a.useChart
                  THEN /\ response' = [response EXCEPT ![r] =
                              [NewResponse EXCEPT !.answer = provideDirectAnswer(userQuery[r]),
                                                  !.toolsUsed = <<"Direct">>]]
                       /\ settled' = [settled EXCEPT ![r] = "resolved"]
                       /\ pc' = [pc EXCEPT ![r] = "Done"]
                  ELSE /\ response' = [response EXCEPT ![r] =
                              [NewResponse EXCEPT !.toolsUsed = toolsToUse(a)]]
                       /\ pc' = [pc EXCEPT ![r] = "Dispatching"]
                       /\ UNCHANGED settled
               /\ UNCHANGED fault
    /\ UNCHANGED <<serverVars, toolVars, client, store, userQuery, tenant, results, llmCalls>>

\* a Retrieval task that asks the language model whatever the search returned
SearchReturnAlwaysAsking(r, fails) ==
    /\ pc[r] = "Dispatching"
    /\ fails => client = "real"
    /\ \E i \in 1..Len(promises[r]) :
          /\ promises[r][i].tool = "RAG"
          /\ promises[r][i].state = "search"
          /\ LET task == promises[r][i]
                 relevantDocs == searchDocuments(client, store, tenant[r], SearchLimit, fails)
             IN /\ promises' = [promises EXCEPT ![r][i] =
                       [task EXCEPT !.state = "llm", !.relevantDocs = relevantDocs,
                                    !.searchFailed = fails]]
                /\ llmCalls' = [llmCalls EXCEPT ![r] = Append(@, pc[r])]
    /\ UNCHANGED <<serverVars, toolVars, client, store, pc, userQuery, tenant, analysis, response, results,
                   settled, fault>>

\* RAGAgent.processQuery lines 146-177: the search returns; without documents the
\* task settles, otherwise the prompt is built and the language model is called
SearchReturn(r, fails) ==
    /\ pc[r] = "Dispatching"
    /\ fails => client = "real"
    /\ \E i \in 1..Len(promises[r]) :
          /\ promises[r][i].tool = "RAG"
          /\ promises[r][i].state = "search"
          /\ LET task == promises[r][i]
                 relevantDocs == searchDocuments(client, store, tenant[r], SearchLimit, fails)
             IN /\ promises' = [promises EXCEPT ![r][i] =
                    IF Len(relevantDocs) = 0
                    THEN [task EXCEPT !.state = "settled", !.result = ragNoDocuments,
                                      !.searchFailed = fails]
                    ELSE [task EXCEPT !.state = "llm", !.relevantDocs = relevantDocs,
                                      !.searchFailed = fails]]
                /\ llmCalls' = [llmCalls EXCEPT ![r] =
                       IF Len(relevantDocs) = 0 THEN @ ELSE Append(@, pc[r])]
    /\ UNCHANGED <<serverVars, toolVars, client, store, pc, userQuery, tenant, analysis, response, results,
                   settled, fault>>

\* a Retrieval task without its catch block: what LLMConfig.invoke throws rejects it
LlmReturnRaising(r, behaviour) ==
    /\ pc[r] = "Dispatching"
    /\ \E i \in 1..Len(promises[r]) :
          /\ promises[r][i].tool = "RAG"
          /\ promises[r][i].state = "llm"
          /\ LET task == promises[r][i]
                 out == LLMConfig_invoke(behaviour, userQuery[r].text)
             IN promises' = [promises EXCEPT ![r][i] =
                    IF out.throws THEN [task EXCEPT !.state = "rejected", !.llm = behaviour]
                    ELSE [task EXCEPT !.state = "settled", !.llm = behaviour,
                                      !.result = ragAnswer(out.content, task.relevantDocs)]]
    /\ UNCHANGED <<serverVars, toolVars, client, store, pc, userQuery, tenant, analysis, response, results,
                   settled, fault, llmCalls>>

\* RAGAgent.processQuery lines 179-202: the language-model call returns or throws
LlmReturn(r, behaviour) ==
    /\ pc[r] = "Dispatching"
    /\ \E i \in 1..Len(promises[r]) :
          /\ promises[r][i].tool = "RAG"
          /\ promises[r][i].state = "llm"
          /\ LET task == promises[r][i]
                 out == LLMConfig_invoke(behaviour, userQuery[r].text)
             IN promises' = [promises EXCEPT ![r][i] =
                    [task EXCEPT !.state = "settled", !.llm = behaviour,
                                 !.result = IF out.throws THEN ragCatch
                                            ELSE ragAnswer(out.content, task.relevantDocs)]]
    /\ UNCHANGED <<serverVars, toolVars, client, store, pc, userQuery, tenant, analysis, response, results,
                   settled, fault, llmCalls>>

\* an external call of the Retrieval task (the GraphQL request of line 273 of
\* weaviate-setup.js, the model call of line 156 of llm-config.js) never comes
\* back: nothing in processQuery bounds the wait
Hang(r) ==
    /\ pc[r] = "Dispatching"
    /\ \E i \in 1..Len(promises[r]) :
          /\ promises[r][i].tool = "RAG"
          /\ \/ promises[r][i].state = "search" /\ client = "real"
             \/ promises[r][i].state = "llm"
          /\ promises' = [promises EXCEPT ![r][i].state = "hung"]
    /\ UNCHANGED <<serverVars, toolVars, client, store, pc, userQuery, tenant, analysis, response, results,
                   settled, fault, llmCalls>>

\* ChartTool.invoke settles
ChartSettle(r) ==
    /\ pc[r] = "Dispatching"
    /\ \E i \in 1..Len(promises[r]) :
          /\ promises[r][i].tool = "Chart"
          /\ promises[r][i].state = "run"
          /\ LET task == promises[r][i]
             IN promises' = [promises EXCEPT ![r][i] =
                    [task EXCEPT !.state = "settled", !.result = ChartTool_call(task.input)]]
    /\ UNCHANGED <<serverVars, toolVars, client, store, pc, userQuery, tenant, analysis, response, results,
                   settled, fault, llmCalls>>

\* a fan-in that returns as soon as one task has settled
MergeRace(r) ==
    /\ pc[r] = "Dispatching"
    /\ \E i \in 1..Len(promises[r]) : promises[r][i].state = "settled"
    /\ pc' = [pc EXCEPT ![r] = "Done"]
    /\ settled' = [settled EXCEPT ![r] = "resolved"]
    /\ UNCHANGED <<serverVars, toolVars, client, store, userQuery, tenant, analysis, response, promises, results,
                   fault, llmCalls>>

\* a fan-in that gives up on a task that never settles and merges the
\* Retrieval apology in its place
MergeWithTimeout(r) ==
    /\ pc[r] = "Dispatching"
    /\ \A i \in 1..Len(promises[r]) : promises[r][i].state \in {"settled", "hung"}
    /\ LET res == [i \in 1..Len(promises[r]) |->
                      IF promises[r][i].state = "hung" THEN ragCatch
                      ELSE promises[r][i].result]
           merged == forEachResult(response[r], res, 1)
       IN /\ results' = [results EXCEPT ![r] = res]
          /\ response' = [response EXCEPT ![r] = merged]
          /\ IF Len(merged.toolsUsed) > 1
             THEN /\ pc' = [pc EXCEPT ![r] = "Narrating"]
                  /\ UNCHANGED settled
             ELSE /\ pc' = [pc EXCEPT ![r] = "Done"]
                  /\ settled' = [settled EXCEPT ![r] = "resolved"]
    /\ UNCHANGED <<serverVars, toolVars, client, store, userQuery, tenant, analysis, promises, fault, llmCalls>>

\* the names of the tasks of r in the order they settled
SettleOrder(r) ==
    LET settles == SelectSeq(events[r], LAMBDA e : e \in {"RAG settled", "Chart settled"})
    IN [i \in 1..Len(settles) |-> IF settles[i] = "RAG settled" THEN "RAG" ELSE "Chart"]

\* a fan-in whose results come in the order the tasks settled: a result that
\* lands under the name of the other capability has none of the fields read there
MergeByArrival(r) ==
    /\ pc[r] = "Dispatching"
    /\ \A i \in 1..Len(promises[r]) : promises[r][i].state = "settled"
    /\ LET taskOf(name) == CHOOSE i \in 1..Len(promises[r]) : promises[r][i].tool = name
           res == [i \in 1..Len(promises[r]) |-> promises[r][taskOf(SettleOrder(r)[i])].result]
           inPlace == \A i \in 1..Len(promises[r]) :
                          SettleOrder(r)[i] = response[r].toolsUsed[i]
           merged == IF inPlace THEN forEachResult(response[r], res, 1) ELSE response[r]
       IN /\ results' = [results EXCEPT ![r] = res]
          /\ response' = [response EXCEPT ![r] = merged]
          /\ IF Len(merged.toolsUsed) > 1
             THEN /\ pc' = [pc EXCEPT ![r] = "Narrating"]
                  /\ UNCHANGED settled
             ELSE /\ pc' = [pc EXCEPT ![r] = "Done"]
                  /\ settled' = [settled EXCEPT ![r] = "resolved"]
    /\ UNCHANGED <<serverVars, toolVars, client, store, userQuery, tenant, analysis,
                   promises, fault, llmCalls>>

\* a fan-in followed by the narration whenever a capability was used
MergeNarrateAlways(r) ==
    /\ pc[r] = "Dispatching"
    /\ \A i \in 1..Len(promises[r]) : promises[r][i].state = "settled"
    /\ LET res == [i \in 1..Len(promises[r]) |-> promises[r][i].result]
           merged == forEachResult(response[r], res, 1)
       IN /\ results' = [results EXCEPT ![r] = res]
          /\ response' = [response EXCEPT ![r] = merged]
          /\ pc' = [pc EXCEPT ![r] = "Narrating"]
          /\ UNCHANGED settled
    /\ UNCHANGED <<serverVars, toolVars, client, store, userQuery, tenant, analysis, promises, fault, llmCalls>>

\* lines 51-72: Promise.all resolves, the results are merged by position
Merge(r) ==
    /\ pc[r] = "Dispatching"
    /\ \A i \in 1..Len(promises[r]) : promises[r][i].state = "settled"
    /\ LET res == [i \in 1..Len(promises[r]) |-> promises[r][i].result]
           merged == forEachResult(response[r], res, 1)
       IN /\ results' = [results EXCEPT ![r] = res]
          /\ response' = [response EXCEPT ![r] = merged]
          /\ IF Len(merged.toolsUsed) > 1
             THEN /\ pc' = [pc EXCEPT ![r] = "Narrating"]
                  /\ UNCHANGED settled
             ELSE /\ pc' = [pc EXCEPT ![r] = "Done"]
                  /\ settled' = [settled EXCEPT ![r] = "resolved"]
    /\ UNCHANGED <<serverVars, toolVars, client, store, userQuery, tenant, analysis, promises, fault, llmCalls>>

\* a narration that asks the language model
NarrateWithModel(r) ==
    /\ pc[r] = "Narrating"
    /\ response' = [response EXCEPT ![r].answer = generateCombinedResponse(userQuery[r], response[r])]
    /\ llmCalls' = [llmCalls EXCEPT ![r] = Append(@, pc[r])]
    /\ pc' = [pc EXCEPT ![r] = "Done"]
    /\ settled' = [settled EXCEPT ![r] = "resolved"]
    /\ UNCHANGED <<serverVars, toolVars, client, store, userQuery, tenant, analysis, promises, results, fault>>

\* lines 68-72: generateCombinedResponse overrides the answer; it is a template
\* (lines 145-147) and calls nothing
Narrate(r) ==
    /\ pc[r] = "Narrating"
    /\ response' = [response EXCEPT ![r].answer = generateCombinedResponse(userQuery[r], response[r])]
    /\ pc' = [pc EXCEPT ![r] = "Done"]
    /\ settled' = [settled EXCEPT ![r] = "resolved"]
    /\ UNCHANGED <<serverVars, toolVars, client, store, userQuery, tenant, analysis, promises, results, fault,
                   llmCalls>>

\* the caller has the response; the slot serves the next call
Return(r) ==
    /\ pc[r] = "Done"
    /\ pc' = [pc EXCEPT ![r] = "Idle"]
    /\ userQuery' = [userQuery EXCEPT ![r] = Undefined]
    /\ tenant' = [tenant EXCEPT ![r] = "tenant1"]
    /\ analysis' = [analysis EXCEPT ![r] = Undefined]
    /\ response' = [response EXCEPT ![r] = Undefined]
    /\ promises' = [promises EXCEPT ![r] = <<>>]
    /\ results' = [results EXCEPT ![r] = <<>>]
    /\ settled' = [settled EXCEPT ![r] = "none"]
    /\ fault' = [fault EXCEPT ![r] = FALSE]
    /\ llmCalls' = [llmCalls EXCEPT ![r] = <<>>]
    /\ UNCHANGED <<serverVars, toolVars, client, store>>

\* the steps below leave the history variable alone: only SpecCompose, which
\* observes the external calls and the order in which tasks settle, writes it
Next ==
    \E r \in Requests :
        \/ (\E q \in ScenarioQueries, t \in Tenants : Call(r, q, t)) /\ UNCHANGED events
        \/ Route(r) /\ UNCHANGED events
        \/ (\E fails \in BOOLEAN : SearchReturn(r, fails)) /\ UNCHANGED events
        \/ (\E behaviour \in LlmBehaviours : LlmReturn(r, behaviour)) /\ UNCHANGED events
        \/ Hang(r) /\ UNCHANGED events
        \/ ChartSettle(r) /\ UNCHANGED events
        \/ Merge(r) /\ UNCHANGED events
        \/ Narrate(r) /\ UNCHANGED events
        \/ Return(r) /\ UNCHANGED events

Spec == Init /\ [][Next]_vars

\* one query for each path of processQuery: fault, direct answer, one task, two tasks
LiveQueries ==
    { JsNumber(42), JsString("Tell me a joke"), JsString("What is machine learning?"),
      JsString("Explain machine learning and create a pie chart of ML algorithms") }

\* every external call comes back (returns or fails), and the event loop runs
\* every continuation that is ready; callers are free to call or not
NextLive ==
    \E r \in Requests :
        \/ (\E q \in LiveQueries : Call(r, q, "tenant1")) /\ UNCHANGED events
        \/ Route(r) /\ UNCHANGED events
        \/ (\E fails \in BOOLEAN : SearchReturn(r, fails)) /\ UNCHANGED events
        \/ (\E behaviour \in LlmBehaviours : LlmReturn(r, behaviour)) /\ UNCHANGED events
        \/ ChartSettle(r) /\ UNCHANGED events
        \/ Merge(r) /\ UNCHANGED events
        \/ Narrate(r) /\ UNCHANGED events
        \/ Return(r) /\ UNCHANGED events

\* a step of processQuery for r, or of one of its tasks
Continue(r) ==
    /\ \/ Route(r)
       \/ \E fails \in BOOLEAN : SearchReturn(r, fails)
       \/ \E behaviour \in LlmBehaviours : LlmReturn(r, behaviour)
       \/ ChartSettle(r)
       \/ Merge(r)
       \/ Narrate(r)
    /\ UNCHANGED events

Fairness == \A r \in Requests : WF_vars(Continue(r))

SpecLive == Init /\ [][NextLive]_vars /\ Fairness

\* one query for each composition of a Response: fault, direct answer,
\* Retrieval alone, Visualization alone, both
ComposeQueries == LiveQueries \cup {JsString("Create a bar chart of sales data")}

\* what a step does for r, seen from outside: RAGAgent.processQuery calls
\* searchDocuments as soon as its task is launched (chart-tool.js line 146) and
\* the language model once the search has returned documents (line 179); a
\* task settles
TaskEvents(r) ==
    IF Len(promises[r]) = 0
    THEN IF \E i \in 1..Len(promises'[r]) : promises'[r][i].tool = "RAG"
         THEN <<"searchDocuments">> ELSE <<>>
    ELSE IF Len(promises'[r]) # Len(promises[r]) THEN <<>>
    ELSE LET changed == { i \in 1..Len(promises[r]) :
                            promises[r][i].state # promises'[r][i].state }
         IN IF changed = {} THEN <<>>
            ELSE LET i == CHOOSE i \in changed : TRUE
                 IN IF promises'[r][i].state = "llm" THEN <<"llm.invoke">>
                    ELSE IF promises'[r][i].state = "settled"
                    THEN <<promises[r][i].tool \o " settled">>
                    ELSE <<>>

\* the history of a call grows by what the step did and ends with the call
Record ==
    events' = [r \in Requests |->
                  IF pc'[r] = "Idle" THEN <<>> ELSE events[r] \o TaskEvents(r)]

\* the steps of Next for the queries above, with their history recorded
NextCompose ==
    \E r \in Requests :
        \/ (\E q \in ComposeQueries : Call(r, q, "tenant1")) /\ Record
        \/ Route(r) /\ Record
        \/ (\E fails \in BOOLEAN : SearchReturn(r, fails)) /\ Record
        \/ (\E behaviour \in LlmBehaviours : LlmReturn(r, behaviour)) /\ Record
        \/ Hang(r) /\ Record
        \/ ChartSettle(r) /\ Record
        \/ Merge(r) /\ Record
        \/ Narrate(r) /\ Record
        \/ Return(r) /\ Record

SpecCompose == Init /\ [][NextCompose]_vars

\* arguments for ChartTool.invoke: no value, a number, objects with any of the
\* three properties present or absent, JSON texts and texts that are not JSON
ChartTypes == {"bar", "line", "pie", "doughnut", "scatter"}

DataValues ==
    { Null, JsNumber(5), [labels |-> <<"A", "B">>], [values |-> <<1, 2>>],
      generateSampleData("pie") }

ChartObjects ==
    { chartTypePart @@ dataPart @@ titlePart :
        chartTypePart \in {<<>>} \cup { [chartType |-> c] : c \in ChartTypes },
        dataPart \in {<<>>} \cup { [data |-> d] : d \in DataValues },
        titlePart \in {<<>>, [title |-> "Sales"]} }

ChartInputs ==
    {Undefined, Null, JsNumber(42)} \cup ChartObjects
    \cup { JsString(t) : t \in { j.text : j \in WellFormedJson } \cup MalformedJson }

\* a caller outside the agent calls chartTool.invoke(input)
ToolInvoke(input) ==
    /\ toolOutcome.settled = "none"
    /\ toolInput' = input
    /\ toolOutcome' = [settled |-> "pending", value |-> Undefined]
    /\ UNCHANGED <<agentVars, serverVars>>

\* the promise of the call settles
ToolSettle ==
    /\ toolOutcome.settled = "pending"
    /\ toolOutcome' = ChartTool_invoke(toolInput)
    /\ UNCHANGED <<toolInput, agentVars, serverVars>>

\* the caller has the outcome and may call again
ToolReturn ==
    /\ toolOutcome.settled \in {"resolved", "rejected"}
    /\ toolInput' = Undefined
    /\ toolOutcome' = [settled |-> "none", value |-> Undefined]
    /\ UNCHANGED <<agentVars, serverVars>>

InitChart == Init /\ client = "null"

NextChart ==
    \/ \E input \in ChartInputs : ToolInvoke(input)
    \/ ToolSettle
    \/ ToolReturn

SpecChart == InitChart /\ [][NextChart]_vars

\* what a Retrieval task can settle to (chart-tool.js lines 148-154, 189-193
\* and 195-202)
RagResults ==
    { ragNoDocuments, ragCatch,
      ragAnswer("Generated answer.", MockData("tenant1")),
      ragAnswer(LlmFallbackContent, StoreOf(1)) }

\* line 52 with every results array the awaited capabilities can resolve it
\* to: the tasks of lines 31-41 have settled, the Retrieval task to any of its
\* results and ChartTool.invoke to what _call returns for any input, also the
\* inputs of ChartInputs that prepareChartInput never builds and that make
\* _call fail
Gather(r, q, ragResult, input) ==
    /\ Idle(r)
    /\ \E a \in {analyzeQuery(q)} :
          /\ a.useChart
          /\ analysis' = [analysis EXCEPT ![r] = a]
          /\ response' = [response EXCEPT ![r] =
                             [NewResponse EXCEPT !.toolsUsed = toolsToUse(a)]]
          /\ promises' = [promises EXCEPT ![r] =
                (IF a.useRAG
                 THEN <<[ragTask EXCEPT !.state = "settled", !.result = ragResult]>>
                 ELSE <<>>)
                \o <<[chartTask(q, a) EXCEPT !.input = input, !.state = "settled",
                                             !.result = ChartTool_call(input)]>>]
    /\ pc' = [pc EXCEPT ![r] = "Dispatching"]
    /\ userQuery' = [userQuery EXCEPT ![r] = q]
    /\ settled' = [settled EXCEPT ![r] = "pending"]
    /\ UNCHANGED <<serverVars, toolVars, client, store, tenant, results, fault, llmCalls>>

\* the merge of lines 51-72 on these results
NextMerge ==
    \/ (\E q \in { JsString("Create a bar chart of sales data"),
                   JsString("Explain machine learning and create a pie chart of ML algorithms") },
           ragResult \in RagResults, input \in ChartInputs :
           Gather("r1", q, ragResult, input)) /\ UNCHANGED events
    \/ Merge("r1") /\ UNCHANGED events
    \/ Narrate("r1") /\ UNCHANGED events
    \/ Return("r1") /\ UNCHANGED events

SpecMerge == Init /\ [][NextMerge]_vars

\* one request, any generated query: analysis, dispatch and the direct answer
InitRouting == Init /\ client = "null"

NextRouting ==
    \/ Idle("r1") /\ (\E q \in GeneratedQueries : Call("r1", q, "tenant1"))
           /\ UNCHANGED events
    \/ Route("r1") /\ UNCHANGED events

SpecRouting == InitRouting /\ [][NextRouting]_vars

(* The HTTP server (src/index.js) *)

\* the operand of ! at lines 59, 120 and 149: undefined, null, '' and 0 are
\* falsy, every object is truthy
IsFalsy(v) ==
    /\ "jsType" \in DOMAIN v
    /\ \/ v.jsType \in {"undefined", "null"}
       \/ v.jsType = "string" /\ v.text = ""
       \/ v.jsType = "number" /\ v.num = 0

\* a property of a request body, undefined when the body does not have it
Property(body, name) == IF name \in DOMAIN body THEN body[name] ELSE Undefined

InternalServerError(message) ==
    [status |-> 500, body |-> [error |-> "Internal server error", message |-> message]]

\* bodies of POST /api/query: no query, falsy queries, a number, and queries of
\* each routing outcome, with and without a tenant
QueryBodies ==
    { queryPart @@ tenantPart :
        queryPart \in {<<>>} \cup
            { [query |-> q] : q \in { Null, JsString(""), JsNumber(0), JsNumber(42),
                                      JsString(" "), JsString("Tell me a joke"),
                                      JsString("What is machine learning?"),
                                      JsString("Create a bar chart of sales data"),
                                      JsString("Explain machine learning and create a pie chart of ML algorithms") } },
        tenantPart \in {<<>>, [tenant |-> "tenant2"]} }

\* bodies of POST /api/chart: the chart types of the schema, two that are not,
\* and the empty text; data absent, falsy, an empty object or filled
ChartBodies ==
    { chartTypePart @@ dataPart @@ titlePart :
        chartTypePart \in {<<>>} \cup
            { [chartType |-> c] : c \in ChartTypes \cup {"invalid", ""} },
        dataPart \in {<<>>} \cup { [data |-> d] : d \in DataValues \cup {<<>>, JsNumber(0)} },
        titlePart \in {<<>>, [title |-> "Sales"], [title |-> ""]} }

\* bodies of POST /api/documents: ids the store holds for either tenant, ids it
\* does not hold, and values that are not arrays
DocumentBodies ==
    { idsPart @@ tenantPart :
        idsPart \in {<<>>} \cup
            { [fileIds |-> ids] :
                ids \in { Null, JsString("doc001"), JsArray(<<"doc001">>),
                          JsArray(<<"doc003">>), JsArray(<<"doc002", "doc001">>),
                          JsArray(<<"doc009">>),
                          JsArray(<<"doc001", "doc002", "doc005">>) } },
        tenantPart \in {<<>>, [tenant |-> "tenant2"]} }

\* Array.isArray
IsArray(v) == "jsType" \in DOMAIN v /\ v.jsType = "array"

\* the processQuery call made for the HTTP request runs in this slot
Served == "r1"

\* index.js lines 191-196 and 20-38: the callback of app.listen runs once the
\* server is listening and only then awaits initializeSystem, whose line 31 sets
\* delegatingAgent.  client and store already hold what initialize, createSchema
\* and insertSampleData leave: no handler that runs before line 31 reads them
InitializeSystem ==
    /\ delegatingAgent = "undefined"
    /\ delegatingAgent' = "ready"
    /\ UNCHANGED <<agentVars, toolVars, httpRequest, httpReply, healthReply>>

\* GET /health (lines 43-52): the body is a literal
Health ==
    /\ healthReply = Undefined
    /\ healthReply' = [status |-> "healthy",
                       services |-> [weaviate |-> "running", delegatingAgent |-> "ready"]]
    /\ UNCHANGED <<agentVars, toolVars, delegatingAgent, httpRequest, httpReply>>

\* POST /api/query, lines 56-67 and 77-83: the body is destructured and checked;
\* line 67 reads delegatingAgent, and calling processQuery on undefined throws a
\* TypeError that the catch answers with 500
PostQuery(body) ==
    /\ httpRequest = Undefined
    /\ httpRequest' = [route |-> "/api/query", body |-> body]
    /\ httpReply' =
          IF IsFalsy(Property(body, "query"))
          THEN [status |-> 400, body |-> [error |-> "Query is required"]]
          ELSE IF delegatingAgent = "undefined"
          THEN InternalServerError("Cannot read properties of undefined (reading 'processQuery')")
          ELSE Undefined
    /\ UNCHANGED <<agentVars, toolVars, delegatingAgent, healthReply>>

\* line 67: the call the handler of an accepted request makes
QueryCall ==
    /\ httpRequest # Undefined
    /\ httpRequest.route = "/api/query"
    /\ httpReply = Undefined
    /\ Call(Served, httpRequest.body.query,
            IF "tenant" \in DOMAIN httpRequest.body THEN httpRequest.body.tenant ELSE "tenant1")

\* lines 67-83: processQuery has settled; its response is sent, or its rejection
\* is caught and answered with 500
QueryReply ==
    /\ httpRequest # Undefined
    /\ httpRequest.route = "/api/query"
    /\ httpReply = Undefined
    /\ pc[Served] = "Done"
    /\ httpReply' =
          IF settled[Served] = "resolved"
          THEN [status |-> 200,
                body |-> [success |-> TRUE, query |-> userQuery[Served],
                          response |-> response[Served]]]
          ELSE InternalServerError("")
    /\ UNCHANGED <<agentVars, toolVars, delegatingAgent, httpRequest, healthReply>>

\* POST /api/chart (lines 145-176)
PostChart(body) ==
    /\ httpRequest = Undefined
    /\ httpRequest' = [route |-> "/api/chart", body |-> body]
    /\ httpReply' =
          IF "chartType" \notin DOMAIN body \/ body.chartType = ""
             \/ IsFalsy(Property(body, "data"))
          THEN [status |-> 400, body |-> [error |-> "chartType and data are required"]]
          ELSE LET title == IF "title" \in DOMAIN body /\ body.title # ""
                            THEN body.title ELSE "Chart"
                   result == ChartTool_invoke([chartType |-> body.chartType,
                                               data |-> body.data, title |-> title])
               IN IF result.settled = "resolved"
                  THEN [status |-> 200, body |-> [success |-> TRUE, result |-> result.value]]
                  ELSE InternalServerError("")
    /\ UNCHANGED <<agentVars, toolVars, delegatingAgent, healthReply>>

\* POST /api/documents (lines 116-142).  Line 25 has run before the first
\* request is handled, so weaviateSetup is an object; fails: the GraphQL request
\* of a real client throws
PostDocuments(body, fails) ==
    /\ httpRequest = Undefined
    /\ fails => client = "real"
    /\ httpRequest' = [route |-> "/api/documents", body |-> body]
    /\ httpReply' =
          LET fileIds == Property(body, "fileIds")
              documents == fetchObjectsByFileIds(client, store, fileIds.items,
                               IF "tenant" \in DOMAIN body THEN body.tenant ELSE "tenant1",
                               fails)
          IN IF IsFalsy(fileIds) \/ ~IsArray(fileIds)
             THEN [status |-> 400, body |-> [error |-> "fileIds array is required"]]
             ELSE [status |-> 200,
                   body |-> [success |-> TRUE, fileIds |-> fileIds.items,
                             documents |-> documents, count |-> Len(documents)]]
    /\ UNCHANGED <<agentVars, toolVars, delegatingAgent, healthReply>>

\* the client has the answer; the server handles the next request
HttpClose ==
    /\ httpReply # Undefined
    /\ Idle(Served)
    /\ httpRequest' = Undefined
    /\ httpReply' = Undefined
    /\ UNCHANGED <<agentVars, toolVars, delegatingAgent, healthReply>>

\* the server listens from the start; requests, initialization and the steps of
\* the processQuery call of the request in hand interleave freely
NextHttp ==
    \/ InitializeSystem
    \/ Health
    \/ \E body \in QueryBodies : PostQuery(body)
    \/ QueryCall /\ UNCHANGED events
    \/ Route(Served) /\ UNCHANGED events
    \/ (\E fails \in BOOLEAN : SearchReturn(Served, fails)) /\ UNCHANGED events
    \/ (\E behaviour \in LlmBehaviours : LlmReturn(Served, behaviour)) /\ UNCHANGED events
    \/ Hang(Served) /\ UNCHANGED events
    \/ ChartSettle(Served) /\ UNCHANGED events
    \/ Merge(Served) /\ UNCHANGED events
    \/ Narrate(Served) /\ UNCHANGED events
    \/ QueryReply
    \/ httpReply # Undefined /\ Return(Served) /\ UNCHANGED events
    \/ \E body \in ChartBodies : PostChart(body)
    \/ \E body \in DocumentBodies, fails \in BOOLEAN : PostDocuments(body, fails)
    \/ HttpClose

SpecHttp == Init /\ [][NextHttp]_vars

TypeOK ==
    /\ client \in {"null", "mock", "real"}
    /\ pc \in [Requests -> {"Idle", "Routing", "Dispatching", "Narrating", "Done"}]
    /\ settled \in [Requests -> {"none", "pending", "resolved", "rejected"}]
    /\ fault \in [Requests -> BOOLEAN]
    /\ \A r \in Requests : \A i \in 1..Len(llmCalls[r]) : llmCalls[r][i] = "Dispatching"

-----------------------------------------------------------------------------
(* Properties *)

\* the keyword lists of the routing policy
RetrievalKeywords ==
    {"what", "how", "why", "search", "find", "machine learning", "neural network",
     "deep learning", "ai"}

VisualizationKeywords ==
    {"chart", "graph", "visualize", "plot", "bar", "pie", "line", "doughnut"}

HasKeyword(q, keywords) ==
    /\ q.jsType = "string"
    /\ LET lowered == toLowerCase(q.text) IN \E k \in keywords : includes(lowered, k)

Analysed(r) == pc[r] \in {"Dispatching", "Narrating", "Done"} /\ ~fault[r]

Returned(r) == pc[r] = "Done"

InTools(resp, tool) == \E i \in 1..Len(resp.toolsUsed) : resp.toolsUsed[i] = tool

\* C2: useRAG is true exactly when the lower-cased text holds a retrieval keyword,
\* and useChart exactly when it holds a visualization keyword, each on its own.
C2_FlagsFollowKeywords ==
    \A r \in Requests :
        Analysed(r) =>
            /\ analysis[r].useRAG = HasKeyword(userQuery[r], RetrievalKeywords)
            /\ analysis[r].useChart = HasKeyword(userQuery[r], VisualizationKeywords)

\* a text in mixed case that sets both flags
C2_Witness ==
    \E r \in Requests :
        /\ Analysed(r)
        /\ userQuery[r].text = "Show PIE"
        /\ analysis[r].useRAG /\ analysis[r].useChart

\* the chart types in the order of their priority; "bar" is the default
ChartTypePriority == <<"pie", "line", "doughnut">>

RoutedChartType(q) ==
    LET lowered == toLowerCase(q.text)
        present == {i \in 1..Len(ChartTypePriority) : includes(lowered, ChartTypePriority[i])}
    IN IF present = {} THEN "bar"
       ELSE ChartTypePriority[CHOOSE i \in present : \A j \in present : i <= j]

\* C3: chartType is the first of pie, line, doughnut that the text holds, else
\* bar; a text holding "pie" and "graph" gets useChart and chartType "pie".
C3_ChartTypePriority ==
    \A r \in Requests :
        Analysed(r) =>
            /\ analysis[r].chartType = RoutedChartType(userQuery[r])
            /\ (includes(toLowerCase(userQuery[r].text), "pie")
                /\ includes(toLowerCase(userQuery[r].text), "graph"))
               => (analysis[r].useChart /\ analysis[r].chartType = "pie")

\* "pie" wins although "bar" and "line" are present as well
C3_Witness ==
    \E r \in Requests :
        /\ Analysed(r)
        /\ userQuery[r].text = "bar pie line"
        /\ analysis[r].chartType = "pie"

DirectReplies == {GreetingReply, WeatherReply, JokeReply, GenericReply}

\* C4: a text without any keyword is routed to neither capability and answered
\* directly: toolsUsed = [Direct], a non-empty answer of the Direct adapter,
\* no references, no fileIds, no chart.
C4_NoKeywordIsDirect ==
    \A r \in Requests :
        (/\ pc[r] \in {"Dispatching", "Narrating", "Done"}
         /\ userQuery[r].jsType = "string"
         /\ ~HasKeyword(userQuery[r], RetrievalKeywords)
         /\ ~HasKeyword(userQuery[r], VisualizationKeywords))
        => /\ ~analysis[r].useRAG /\ ~analysis[r].useChart
           /\ Returned(r) /\ settled[r] = "resolved"
           /\ response[r].toolsUsed = <<"Direct">>
           /\ response[r].answer \in DirectReplies /\ response[r].answer # ""
           /\ response[r].references = <<>> /\ response[r].fileIds = <<>>
           /\ response[r].chartConfig = Null

\* the empty string has been answered
C4_Witness ==
    \E r \in Requests :
        /\ Returned(r)
        /\ userQuery[r] = JsString("")
        /\ response[r].toolsUsed = <<"Direct">>

ErrorResponse ==
    [answer |-> "I encountered an error while processing your request. Please try again.",
     references |-> <<>>, fileIds |-> <<>>, chartConfig |-> Null, toolsUsed |-> <<"Error">>]

ResponseFields == {"answer", "references", "fileIds", "chartConfig", "toolsUsed"}

\* C1: processQuery never rejects; what it resolves to has the five fields of a
\* Response, and once a step has thrown it is exactly the error response.
C1_NeverRejects ==
    \A r \in Requests :
        /\ settled[r] # "rejected"
        /\ Returned(r) => (settled[r] = "resolved" /\ DOMAIN response[r] = ResponseFields)
        /\ fault[r] => (Returned(r) /\ response[r] = ErrorResponse)

\* a call with a value that is no string has thrown inside analyzeQuery and returned
C1_Witness ==
    \E r \in Requests :
        /\ userQuery[r] = JsNumber(42)
        /\ fault[r] /\ Returned(r) /\ settled[r] = "resolved"

SelectsBoth(q) == HasKeyword(q, RetrievalKeywords) /\ HasKeyword(q, VisualizationKeywords)

\* C5: a returned query that selected Retrieval and Visualization has toolsUsed =
\* [RAG, Chart], a chart configuration, and the narration as answer: it holds the
\* query text and "RAG and Chart".
C5_CombinedResponse ==
    \A r \in Requests :
        (Returned(r) /\ SelectsBoth(userQuery[r])) =>
            /\ response[r].toolsUsed = <<"RAG", "Chart">>
            /\ response[r].chartConfig # Null
            /\ includes(response[r].answer, userQuery[r].text)
            /\ includes(response[r].answer, "RAG and Chart")
            /\ includes(response[r].answer, "I've analyzed your query: ")

\* a combined query has returned with documents and a chart
C5_Witness ==
    \E r \in Requests :
        /\ Returned(r) /\ SelectsBoth(userQuery[r])
        /\ response[r].fileIds # <<>>
        /\ response[r].chartConfig # Null

\* C6: a returned Response has references only if RAG is in toolsUsed, and a chart
\* configuration only if Chart is in toolsUsed.
C6_FieldsNeedTheirTool ==
    \A r \in Requests :
        Returned(r) =>
            /\ response[r].references # <<>> => InTools(response[r], "RAG")
            /\ response[r].chartConfig # Null => InTools(response[r], "Chart")

\* a Response with references and a chart configuration
C6_Witness ==
    \E r \in Requests :
        /\ Returned(r)
        /\ response[r].references # <<>>
        /\ response[r].chartConfig # Null

\* C7: toolsUsed of a returned Response is [RAG], [Chart], [RAG, Chart], [Direct]
\* or [Error]; capability names are as many as the results merged, and Direct
\* and Error stand alone, with no result merged.
C7_ToolsUsedShapes ==
    \A r \in Requests :
        Returned(r) =>
            /\ response[r].toolsUsed \in
                  {<<"RAG">>, <<"Chart">>, <<"RAG", "Chart">>, <<"Direct">>, <<"Error">>}
            /\ IF response[r].toolsUsed \in {<<"Direct">>, <<"Error">>}
               THEN Len(results[r]) = 0
               ELSE Len(results[r]) = Len(response[r].toolsUsed)

\* two results were merged under two names
C7_Witness ==
    \E r \in Requests :
        /\ Returned(r)
        /\ Len(results[r]) = Len(response[r].toolsUsed)
        /\ Len(results[r]) > 1

\* the Retrieval task of r has its search back, with no document
SearchFoundNothing(r) ==
    \E i \in 1..Len(promises[r]) :
        /\ promises[r][i].tool = "RAG"
        /\ promises[r][i].state = "settled"
        /\ Len(promises[r][i].relevantDocs) = 0

\* C8 as claimed: after a search without documents the answer is the fixed
\* "no information found" text, fileIds and references are empty, and toolsUsed
\* holds RAG and not Error.
C8_Claimed ==
    \A r \in Requests :
        (Returned(r) /\ SearchFoundNothing(r)) =>
            /\ response[r].answer = NoInformationAnswer
            /\ response[r].fileIds = <<>> /\ response[r].references = <<>>
            /\ InTools(response[r], "RAG") /\ ~InTools(response[r], "Error")

\* C8: after a search without documents fileIds and references are empty and
\* toolsUsed holds RAG and not Error; the answer is the fixed "no information
\* found" text when Retrieval is the only capability used, and the narration
\* that ends with that text when Visualization was used as well.
C8_NoDocuments ==
    \A r \in Requests :
        (Returned(r) /\ SearchFoundNothing(r)) =>
            /\ response[r].fileIds = <<>> /\ response[r].references = <<>>
            /\ InTools(response[r], "RAG") /\ ~InTools(response[r], "Error")
            /\ response[r].answer =
                  IF Len(response[r].toolsUsed) = 1
                  THEN "I couldn't find any relevant information in the knowledge base for your query."
                  ELSE "I've analyzed your query: \"" \o userQuery[r].text
                       \o "\" and used RAG and Chart to gather information. "
                       \o "I couldn't find any relevant information in the knowledge base for your query."

\* a retrieval-only query has returned after a search without documents
C8_Witness ==
    \E r \in Requests :
        /\ Returned(r) /\ SearchFoundNothing(r)
        /\ response[r].toolsUsed = <<"RAG">>

\* C9 as claimed: processQuery('Hello, how are you?', 'tenant1') returns
\* toolsUsed = [Direct] and the fixed greeting.
C9_Claimed ==
    \A r \in Requests :
        (/\ Returned(r)
         /\ userQuery[r] = JsString("Hello, how are you?")
         /\ tenant[r] = "tenant1")
        => /\ response[r].toolsUsed = <<"Direct">>
           /\ response[r].answer = GreetingReply

VisualizationOnly(q) ==
    HasKeyword(q, VisualizationKeywords) /\ ~HasKeyword(q, RetrievalKeywords)

\* C10 as claimed: a visualization-only query returns toolsUsed = [Chart], a
\* chart configuration of the routed type, and a non-empty answer.
C10_Claimed ==
    \A r \in Requests :
        (Returned(r) /\ VisualizationOnly(userQuery[r])) =>
            /\ response[r].toolsUsed = <<"Chart">>
            /\ response[r].chartConfig # Null
            /\ response[r].chartConfig.type = RoutedChartType(userQuery[r])
            /\ response[r].answer # ""

\* C10: a visualization-only query returns toolsUsed = [Chart], a chart
\* configuration of the routed type, and the empty string as answer.
C10_ChartOnly ==
    \A r \in Requests :
        (Returned(r) /\ VisualizationOnly(userQuery[r])) =>
            /\ response[r].toolsUsed = <<"Chart">>
            /\ response[r].chartConfig # Null
            /\ response[r].chartConfig.type = RoutedChartType(userQuery[r])
            /\ response[r].answer = ""

\* 'Create a bar chart of sales data' has returned a bar chart
C10_Witness ==
    \E r \in Requests :
        /\ Returned(r)
        /\ userQuery[r] = JsString("Create a bar chart of sales data")
        /\ response[r].chartConfig # Null
        /\ response[r].chartConfig.type = "bar"

RetrievalOnly(q) ==
    HasKeyword(q, RetrievalKeywords) /\ ~HasKeyword(q, VisualizationKeywords)

\* the search of the Retrieval task of r came back with at least one document
FoundDocuments(r) ==
    \E i \in 1..Len(promises[r]) :
        promises[r][i].tool = "RAG" /\ Len(promises[r][i].relevantDocs) > 0

\* the language-model call of the Retrieval task of r threw past LLMConfig.invoke
LlmThrew(r) ==
    \E i \in 1..Len(promises[r]) :
        /\ promises[r][i].tool = "RAG"
        /\ promises[r][i].llm \in LlmBehaviours
        /\ LLMConfig_invoke(promises[r][i].llm, "").throws

\* the ids of the documents the Retrieval task of r found, in their order
FoundFileIds(r) ==
    LET i == CHOOSE i \in 1..Len(promises[r]) : promises[r][i].tool = "RAG"
        docs == promises[r][i].relevantDocs
    IN [k \in 1..Len(docs) |-> docs[k].fileId]

C12_Claimed ==
    \A r \in Requests :
        (Returned(r) /\ Len(response[r].toolsUsed) > 1) =>
            \E i \in 1..Len(llmCalls[r]) : llmCalls[r][i] = "Narrating"

\* C12: a response of more than one capability is narrated after the merge by
\* the fixed template alone; the request's only language-model call is the one
\* of its Retrieval task, made while the tasks were running, before the merge.
C12_TemplateNarration ==
    \A r \in Requests :
        (Returned(r) /\ Len(response[r].toolsUsed) > 1) =>
            /\ Len(results[r]) = Len(response[r].toolsUsed)
            /\ response[r].answer =
                  "I've analyzed your query: \"" \o userQuery[r].text
                  \o "\" and used RAG and Chart to gather information. "
                  \o results[r][1].answer
            /\ Len(llmCalls[r]) = (IF FoundDocuments(r) THEN 1 ELSE 0)
            /\ \A i \in 1..Len(llmCalls[r]) : llmCalls[r][i] = "Dispatching"

\* a combined query has been narrated after its Retrieval task asked the model
C12_Witness ==
    \E r \in Requests :
        /\ Returned(r) /\ Len(response[r].toolsUsed) > 1
        /\ Len(results[r]) = 2
        /\ llmCalls[r] = <<"Dispatching">>

\* every capability task launched for r has settled
AllSettled(r) == \A i \in 1..Len(promises[r]) : promises[r][i].state = "settled"

\* C13: the results are merged and a Response (the Error response included) is
\* returned only when every capability task launched for the request has
\* settled, and the merge has one result for each launched task.
C13_FanInIsJoin ==
    \A r \in Requests :
        /\ (pc[r] \in {"Narrating", "Done"} \/ Len(results[r]) > 0) => AllSettled(r)
        /\ pc[r] \in {"Narrating", "Done"} => Len(results[r]) = Len(promises[r])
        /\ fault[r] => Len(promises[r]) = 0

\* the two tasks of a combined query have settled and their results are merged
C13_Witness ==
    \E r \in Requests :
        /\ pc[r] = "Narrating"
        /\ Len(promises[r]) = 2 /\ AllSettled(r)
        /\ Len(results[r]) = 2

\* the edges of the per-request state machine
Edges ==
    { <<"Idle", "Routing">>, <<"Routing", "Done">>, <<"Routing", "Dispatching">>,
      <<"Dispatching", "Narrating">>, <<"Dispatching", "Done">>,
      <<"Narrating", "Done">>, <<"Done", "Idle">> }

\* C14: when every external call comes back, a request that processQuery has
\* taken up is eventually resolved with a Response, and it gets there along
\* Routing -> Done (direct answer, or a fault), Routing -> Dispatching -> Done, or
\* Routing -> Dispatching -> Narrating -> Done.
C14_EventuallyDone ==
    /\ \A r \in Requests :
          (pc[r] = "Routing") ~> (pc[r] = "Done" /\ settled[r] = "resolved")
    /\ [][\A r \in Requests : pc'[r] # pc[r] => <<pc[r], pc'[r]>> \in Edges]_vars

\* a combined query is resolved after its search and its model call came back
C14_Witness ==
    \E r \in Requests :
        /\ pc[r] = "Done" /\ settled[r] = "resolved"
        /\ Len(promises[r]) = 2
        /\ Len(llmCalls[r]) = 1

\* a task of r waits for an external call that never comes back
Hung(r) == \E i \in 1..Len(promises[r]) : promises[r][i].state = "hung"

\* C15: nothing times out or cancels: once a task of a request waits for an
\* external call that never comes back, the task stays so and the request stays
\* in Dispatching with processQuery pending, whatever its other task has done.
C15_NoTimeout ==
    [][\A r \in Requests :
          (Hung(r) \/ Hung(r)') =>
              /\ Hung(r)'
              /\ pc'[r] = "Dispatching" /\ settled'[r] = "pending"
              /\ response'[r].answer = "" /\ Len(results'[r]) = 0]_vars

\* the Visualization task has completed, the Retrieval task never will, and
\* processQuery is still waiting
C15_Witness ==
    \E r \in Requests :
        /\ Hung(r)
        /\ \E i \in 1..Len(promises[r]) :
              promises[r][i].tool = "Chart" /\ promises[r][i].state = "settled"
        /\ pc[r] = "Dispatching" /\ settled[r] = "pending"

\* everything processQuery holds for request r
RequestState(r) ==
    <<pc[r], userQuery[r], tenant[r], analysis[r], response[r], promises[r], results[r],
      settled[r], fault[r], llmCalls[r]>>

\* what a task of r resolves to when the request runs alone against the same
\* store and gets from its own external calls what the task got
AloneResult(r, i) ==
    IF promises[r][i].tool = "Chart"
    THEN ChartTool_call(prepareChartInput(userQuery[r], analyzeQuery(userQuery[r]).chartType))
    ELSE LET docs == searchDocuments(client, store, tenant[r], SearchLimit,
                                     promises[r][i].searchFailed)
             out == LLMConfig_invoke(promises[r][i].llm, userQuery[r].text)
         IN IF Len(docs) = 0 THEN ragNoDocuments
            ELSE IF out.throws THEN ragCatch
            ELSE ragAnswer(out.content, docs)

\* the Response of r when it runs alone, from its query, its tenant, the store
\* and the outcomes of its own external calls
AloneResponse(r) ==
    IF analyzeQueryThrows(userQuery[r]) THEN catchHandler.response
    ELSE LET a == analyzeQuery(userQuery[r])
             merged == forEachResult([NewResponse EXCEPT !.toolsUsed = toolsToUse(a)],
                                     [i \in 1..Len(toolsToUse(a)) |-> AloneResult(r, i)], 1)
         IN IF ~a.useRAG /\ ~a.useChart
            THEN [NewResponse EXCEPT !.answer = provideDirectAnswer(userQuery[r]),
                                     !.toolsUsed = <<"Direct">>]
            ELSE IF Len(merged.toolsUsed) > 1
            THEN [merged EXCEPT !.answer = generateCombinedResponse(userQuery[r], merged)]
            ELSE merged

\* C16: under every interleaving of the steps of concurrent requests, a step
\* writes the fields of one request only and leaves the store alone, and the
\* Response of each request is the one it gets when it runs alone against the
\* same store with the same outcomes of its own external calls.
C16_NoInterference ==
    /\ [](\A r \in Requests : Returned(r) => response[r] = AloneResponse(r))
    /\ [][/\ \A r1, r2 \in Requests :
               (r1 # r2 /\ RequestState(r1)' # RequestState(r1))
                   => RequestState(r2)' = RequestState(r2)
           /\ UNCHANGED <<serverVars, toolVars, client, store>>]_vars

\* a request has its Response while a request of another tenant is in flight
C16_Witness ==
    \E r1, r2 \in Requests :
        /\ r1 # r2 /\ tenant[r1] # tenant[r2]
        /\ Returned(r1) /\ Len(llmCalls[r1]) = 1
        /\ pc[r2] = "Dispatching" /\ Len(llmCalls[r2]) = 1
        /\ response[r1] = AloneResponse(r1)

\* the store search of the Retrieval task of r threw
SearchFailed(r) ==
    \E i \in 1..Len(promises[r]) : promises[r][i].tool = "RAG" /\ promises[r][i].searchFailed

\* two distinct calls have returned for the same query text and tenant
SameCall(r1, r2) ==
    /\ r1 # r2 /\ Returned(r1) /\ Returned(r2)
    /\ userQuery[r1] = userQuery[r2] /\ tenant[r1] = tenant[r2]

\* the two responses have no chart, or charts of the same type
SameChartType(resp1, resp2) ==
    IF resp1.chartConfig = Null \/ resp2.chartConfig = Null
    THEN resp1.chartConfig = resp2.chartConfig
    ELSE resp1.chartConfig.type = resp2.chartConfig.type

RagTasks(r) == { i \in 1..Len(promises[r]) : promises[r][i].tool = "RAG" }

\* the model call of the task failed: the configured model threw
LlmFailed(task) == task.llm \in LlmBehaviours /\ task.llm.kind = "error"

MissingData(input) ==
    IF IsString(input)
    THEN \E j \in WellFormedJson :
            /\ j.text = input.text /\ ~IsNullish(j.value) /\ "data" \notin DOMAIN j.value
    ELSE ~IsNullish(input) /\ "data" \notin DOMAIN input

\* C19: a call of ChartTool.invoke never rejects: it resolves to an object with
\* success = true and a chartConfig, or with success = false and an error; for
\* no value (null, undefined), for a text that is not JSON and for a missing
\* data object it is the second.
C19_NeverThrows ==
    /\ toolOutcome.settled # "rejected"
    /\ toolOutcome.settled = "resolved" =>
          LET out == toolOutcome.value
          IN /\ "success" \in DOMAIN out
             /\ IF out.success
                THEN "chartConfig" \in DOMAIN out /\ "error" \notin DOMAIN out
                ELSE "error" \in DOMAIN out /\ "chartConfig" \notin DOMAIN out
             /\ (\/ IsNullish(toolInput)
                 \/ IsString(toolInput) /\ toolInput.text \in MalformedJson
                 \/ MissingData(toolInput)) => ~out.success

\* a call with a text that is not JSON has resolved to a failure object
C19_Witness ==
    /\ toolOutcome.settled = "resolved"
    /\ IsString(toolInput) /\ toolInput.text = "{chartType: bar}"
    /\ toolOutcome.value.success = FALSE
    /\ toolOutcome.value.error = "SyntaxError"

\* C20 as claimed: every document in the references of a Response for tenant T is
\* a document of tenant T, and no id in its fileIds is the id of a document the
\* store holds under another tenant.
C20_Claimed ==
    \A r \in Requests :
        Returned(r) =>
            /\ \A i \in 1..Len(response[r].references) :
                  response[r].references[i].tenant = tenant[r]
            /\ \A i \in 1..Len(response[r].fileIds) :
                  ~\E k \in 1..Len(store) :
                      /\ store[k].fileId = response[r].fileIds[i]
                      /\ store[k].tenant # tenant[r]

\* the server has answered the POST /api/query request in hand
QueryAnswered ==
    /\ httpRequest # Undefined
    /\ httpRequest.route = "/api/query"
    /\ httpReply # Undefined

\* C21 as claimed: a POST /api/query request is answered with 400, before the
\* agent is reached, when its query is missing or empty, and otherwise always
\* with 200 and success = true carrying a Response.
C21_Claimed ==
    QueryAnswered =>
        IF IsFalsy(Property(httpRequest.body, "query"))
        THEN httpReply.status = 400 /\ settled[Served] = "none"
        ELSE /\ httpReply.status = 200
             /\ httpReply.body.success
             /\ DOMAIN httpReply.body.response = ResponseFields

\* the chart types of the schema of ChartTool (chart-tool.js line 10)
KnownChartTypes == {"bar", "line", "pie", "doughnut"}

\* the server has answered the POST /api/chart request in hand
ChartAnswered ==
    /\ httpRequest # Undefined
    /\ httpRequest.route = "/api/chart"
    /\ httpReply # Undefined

\* C22 as claimed: a POST /api/chart request whose chartType is not one of bar,
\* line, pie and doughnut is answered with 400 and gets no chart configuration.
C22_Claimed ==
    (/\ ChartAnswered
     /\ \/ "chartType" \notin DOMAIN httpRequest.body
        \/ httpRequest.body.chartType \notin KnownChartTypes)
        => /\ httpReply.status = 400
           /\ "result" \notin DOMAIN httpReply.body

\* a plain object that names a chart type of the schema and carries a data object
KnownTypeWithData(input) ==
    /\ "jsType" \notin DOMAIN input
    /\ "chartType" \in DOMAIN input
    /\ input.chartType \in KnownChartTypes
    /\ "data" \in DOMAIN input
    /\ "jsType" \notin DOMAIN input.data

\* the colours of a chart configuration
ColoursOf(chartConfig) ==
    LET dataset == chartConfig.data.datasets[1]
    IN [k \in DOMAIN dataset \cap {"backgroundColor", "borderColor"} |-> dataset[k]]

\* C23: for a chart type of the schema and a data object, ChartTool.invoke
\* resolves to success = true with a configuration of the requested type,
\* whose colours are those of every other configuration of that type, whatever
\* its data values and title.
C23_PaletteByType ==
    (toolOutcome.settled = "resolved" /\ KnownTypeWithData(toolInput)) =>
        /\ toolOutcome.value.success
        /\ toolOutcome.value.chartConfig.type = toolInput.chartType
        /\ \A other \in ChartObjects :
              (KnownTypeWithData(other) /\ other.chartType = toolInput.chartType)
                  => ColoursOf(ChartTool_call(other).chartConfig)
                         = ColoursOf(toolOutcome.value.chartConfig)

\* a line chart with two values of its own and a title has been configured
C23_Witness ==
    /\ toolOutcome.settled = "resolved"
    /\ KnownTypeWithData(toolInput)
    /\ toolInput.chartType = "line"
    /\ toolInput.data = [values |-> <<1, 2>>]
    /\ "title" \in DOMAIN toolInput
    /\ ColoursOf(toolOutcome.value.chartConfig)
           = [backgroundColor |-> <<"#36A2EB">>, borderColor |-> "#36A2EB"]

\* the external calls of the Retrieval tasks of the two requests fared alike
SameOutcomes(r1, r2) ==
    /\ Len(promises[r1]) = Len(promises[r2])
    /\ \A i \in RagTasks(r1) :
          /\ promises[r2][i].tool = "RAG"
          /\ promises[r1][i].searchFailed = promises[r2][i].searchFailed
          /\ promises[r1][i].llm = promises[r2][i].llm

\* C24: once the results are merged, the i-th result is the one the task of
\* the capability named toolsUsed[i] settled to, and two calls for the same
\* combined query whose external calls fared alike have the same Response,
\* whichever of their tasks settled first.
C24_IndexExact ==
    /\ \A r \in Requests :
          pc[r] \in {"Narrating", "Done"} =>
              /\ Len(results[r]) = Len(promises[r])
              /\ \A i \in 1..Len(results[r]) :
                    /\ promises[r][i].tool = response[r].toolsUsed[i]
                    /\ results[r][i] = promises[r][i].result
    /\ \A r1, r2 \in Requests :
          (/\ SameCall(r1, r2)
           /\ Len(promises[r1]) = 2
           /\ SameOutcomes(r1, r2))
              => response[r1] = response[r2]

\* two calls for the same combined query have returned the same Response with
\* documents and a chart; in one the Retrieval task settled first, in the
\* other the Visualization task
C24_Witness ==
    \E r1, r2 \in Requests :
        /\ SameCall(r1, r2)
        /\ SameOutcomes(r1, r2)
        /\ SettleOrder(r1) = <<"RAG", "Chart">>
        /\ SettleOrder(r2) = <<"Chart", "RAG">>
        /\ response[r1] = response[r2]
        /\ response[r1].toolsUsed = <<"RAG", "Chart">>
        /\ Len(response[r1].fileIds) > 0
        /\ response[r1].chartConfig # Null

\* how every text of generateCombinedResponse starts
NarrationOpening == "I've analyzed your query: \""

StartsWith(s, prefix) == Len(s) >= Len(prefix) /\ SubSeq(s, 1, Len(prefix)) = prefix

\* C25: a returned Response has the narration as answer exactly when its
\* toolsUsed has more than one name: then the answer is the template with the
\* query and "RAG and Chart", followed by the answer of the Retrieval result;
\* a Response of one capability keeps the answer of that capability, a Direct
\* Response a direct reply and an Error Response the apology, none of which is
\* the template.
C25_NarrationIffCombined ==
    \A r \in Requests :
        Returned(r) =>
            IF Len(response[r].toolsUsed) > 1
            THEN /\ response[r].toolsUsed = <<"RAG", "Chart">>
                 /\ response[r].answer =
                        NarrationOpening \o userQuery[r].text \o "\" and used RAG and Chart"
                            \o " to gather information. " \o results[r][1].answer
            ELSE /\ ~StartsWith(response[r].answer, NarrationOpening)
                 /\ response[r].answer =
                        CASE response[r].toolsUsed = <<"RAG">> -> results[r][1].answer
                          [] response[r].toolsUsed = <<"Chart">> -> ""
                          [] response[r].toolsUsed = <<"Direct">> ->
                                 provideDirectAnswer(userQuery[r])
                          [] response[r].toolsUsed = <<"Error">> -> ErrorApology

\* one call has returned the narration around a generated Retrieval answer
\* while another has returned a Retrieval answer as it is
C25_Witness ==
    \E r1, r2 \in Requests :
        /\ Returned(r1) /\ Returned(r2)
        /\ response[r1].toolsUsed = <<"RAG", "Chart">>
        /\ results[r1][1].answer = "Generated answer."
        /\ StartsWith(response[r1].answer, NarrationOpening)
        /\ response[r2].toolsUsed = <<"RAG">>
        /\ response[r2].answer = "Generated answer."

\* Promise.all has resolved and the Visualization result among the results of r
\* has success = false
ChartFailed(r) ==
    /\ pc[r] \in {"Narrating", "Done"}
    /\ \E i \in 1..Len(results[r]) :
          promises[r][i].tool = "Chart" /\ ~results[r][i].success

\* C26: when the Visualization result has success = false, the merged Response
\* has chartConfig = null and no error shows: toolsUsed is as dispatched, the
\* call resolves; answer, fileIds and references are what the Retrieval result
\* holds (the initial values without Retrieval), the answer until the
\* narration of a combined Response wraps it.
C26_FailedChartOmitted ==
    \A r \in Requests :
        ChartFailed(r) =>
            /\ response[r].chartConfig = Null
            /\ response[r].toolsUsed = toolsToUse(analysis[r])
            /\ ~fault[r] /\ settled[r] # "rejected"
            /\ IF response[r].toolsUsed[1] = "RAG"
               THEN /\ response[r].fileIds = results[r][1].fileIds
                    /\ response[r].references = results[r][1].references
                    /\ response[r].answer =
                           IF pc[r] = "Narrating" THEN results[r][1].answer
                           ELSE generateCombinedResponse(userQuery[r],
                                    [response[r] EXCEPT !.answer = results[r][1].answer])
               ELSE /\ response[r].fileIds = <<>> /\ response[r].references = <<>>
                    /\ response[r].answer = ""

\* a failed Visualization result has been merged next to a Retrieval result
\* with documents
C26_Witness ==
    /\ ChartFailed("r1")
    /\ pc["r1"] = "Narrating"
    /\ response["r1"].toolsUsed = <<"RAG", "Chart">>
    /\ results["r1"][2].error = "TypeError"
    /\ Len(response["r1"].fileIds) = 2
    /\ response["r1"].answer = "Generated answer."

\* how many times the call of r has made the external call
Calls(r, call) == Cardinality({ i \in 1..Len(events[r]) : events[r][i] = call })

\* C27: a call of processQuery searches the store once when the analysis
\* selects Retrieval and never otherwise; it asks the language model only once
\* that search has returned at least one document, and then once; a call
\* answered directly, by Visualization alone or with the Error Response makes
\* neither external call.
C27_CallsFollowRouting ==
    \A r \in Requests :
        /\ Calls(r, "searchDocuments") =
               IF Analysed(r) /\ analysis[r].useRAG THEN 1 ELSE 0
        /\ Calls(r, "llm.invoke") = Len(llmCalls[r])
        /\ Calls(r, "llm.invoke") = IF FoundDocuments(r) THEN 1 ELSE 0
        /\ \A i \in 1..Len(events[r]) :
              events[r][i] = "llm.invoke" =>
                  \E j \in 1..(i - 1) : events[r][j] = "searchDocuments"
        /\ (Returned(r) /\ response[r].toolsUsed \in {<<"Direct">>, <<"Chart">>, <<"Error">>})
               => events[r] \in {<<>>, <<"Chart settled">>}

\* one call has searched and then asked the model, another has searched, got
\* no document and settled without asking
C27_Witness ==
    \E r1, r2 \in Requests :
        /\ Returned(r1) /\ Returned(r2)
        /\ events[r1] = <<"searchDocuments", "llm.invoke", "RAG settled">>
        /\ events[r2] = <<"searchDocuments", "RAG settled">>
        /\ response[r2].answer = NoInformationAnswer

\* the documents the search of the Retrieval task of r returned, in its order;
\* none without such a task
SearchResult(r) ==
    IF RagTasks(r) = {} THEN <<>>
    ELSE promises[r][CHOOSE i \in RagTasks(r) : TRUE].relevantDocs

ReportedReady ==
    /\ healthReply # Undefined
    /\ healthReply.status = "healthy"
    /\ healthReply.services.delegatingAgent = "ready"

\* C29 as claimed: once GET /health has answered 'healthy' with delegatingAgent
\* 'ready', a POST /api/query with a non-empty query finds delegatingAgent
\* initialized and is not answered with 500.
C29_Claimed ==
    [][(/\ ReportedReady
        /\ httpRequest = Undefined
        /\ httpRequest' # Undefined
        /\ httpRequest'.route = "/api/query"
        /\ ~IsFalsy(Property(httpRequest'.body, "query")))
       => /\ delegatingAgent = "ready"
          /\ httpReply' = Undefined \/ httpReply'.status # 500]_vars

\* the server has answered the POST /api/documents request in hand with what
\* fetchObjectsByFileIds returned
DocumentsAnswered ==
    /\ httpRequest # Undefined
    /\ httpRequest.route = "/api/documents"
    /\ httpReply # Undefined
    /\ httpReply.status = 200

\* C30 as claimed: every document fetchObjectsByFileIds(fileIds, tenant)
\* returns has one of the requested ids and the requested tenant.
C30_Claimed ==
    DocumentsAnswered =>
        \A i \in 1..Len(httpReply.body.documents) :
            /\ \E k \in 1..Len(httpRequest.body.fileIds.items) :
                  httpReply.body.documents[i].fileId = httpRequest.body.fileIds.items[k]
            /\ httpReply.body.documents[i].tenant =
                   IF "tenant" \in DOMAIN httpRequest.body THEN httpRequest.body.tenant
                   ELSE "tenant1"
====
